---- MODULE Spec2Model ----
(***************************************************************************)
(* State-machine model of scrape_all_profiles.py: the incremental JSONL    *)
(* writer (IncrementalJSONLSaver), the batch runner                        *)
(* (scrape_profiles_in_batches), the integrity verifier                    *)
(* (verify_jsonl_integrity) and the part of main() that drives them.       *)
(*                                                                         *)
(* Text is modelled as a sequence of string tokens: one token per          *)
(* structural character, one per string body, one per decimal digit.       *)
(* Python values are tagged records (field ty names the Python type).      *)
(***************************************************************************)
EXTENDS Integers, Sequences, FiniteSets, TLC

\* ------------------------------------------------------------------ bounds
\* Longest input list read from the CSV file.
MaxProfiles == 5
\* chunk_size ranges over 1..MaxChunkSize.
MaxChunkSize == 2
\* batch_size ranges over 1..MaxBatchSize.
MaxBatchSize == 2
\* Longest pre-existing chunk file (in lines) given to the verifier.
MaxFileLines == 2
\* Largest expected_total given to the verifier.
MaxExpected == 4

\* ------------------------------------------------------- Python values
PyNone == [ty |-> "NoneType"]
PyStr(s) == [ty |-> "str", s |-> s]
PyInt(n) == [ty |-> "int", n |-> n]
PyFloat(n) == [ty |-> "float", n |-> n]
\* A dict is its items in insertion order, each <<key, value>>.
PyDict(items) == [ty |-> "dict", items |-> items]
\* An object json.dumps has no encoder for (a set, a datetime, ...).
PyObject == [ty |-> "object"]

\* Python truthiness, as used by `if profile_data:`.
Truthy(v) ==
  CASE v.ty = "NoneType" -> FALSE
    [] v.ty = "dict" -> v.items # <<>>
    [] v.ty = "str" -> v.s # ""
    [] v.ty \in {"int", "float"} -> v.n # 0
    [] OTHER -> TRUE

\* ------------------------------------------------------------ json.dumps
DigitChars == <<"0", "1", "2", "3", "4", "5", "6", "7", "8", "9">>

RECURSIVE Digits(_)
\* Decimal digits of a natural number, most significant first.
Digits(n) ==
  IF n < 10 THEN <<DigitChars[n + 1]>>
  ELSE Digits(n \div 10) \o <<DigitChars[(n % 10) + 1]>>

RECURSIVE Serializable(_)
\* json.dumps raises TypeError on a value it has no encoder for.
Serializable(v) ==
  CASE v.ty = "dict" -> \A k \in 1..Len(v.items) : Serializable(v.items[k][2])
    [] v.ty = "object" -> FALSE
    [] OTHER -> TRUE

RECURSIVE json_dumps(_)
RECURSIVE dumps_items(_)
\* The members of a dict, separated by ", ", each "key": value.
dumps_items(items) ==
  IF items = <<>> THEN <<>>
  ELSE <<"\"", items[1][1], "\"", ":", " ">> \o json_dumps(items[1][2])
       \o (IF Len(items) > 1 THEN <<",", " ">> \o dumps_items(Tail(items)) ELSE <<>>)

\* json.dumps(v, ensure_ascii=False) of a serializable value: one line of text.
json_dumps(v) ==
  CASE v.ty = "NoneType" -> <<"null">>
    [] v.ty = "str" -> <<"\"", v.s, "\"">>
    [] v.ty = "int" -> Digits(v.n)
    [] v.ty = "float" -> Digits(v.n) \o <<".", "0">>
    [] v.ty = "dict" -> <<"{">> \o dumps_items(v.items) \o <<"}">>

\* ------------------------------------------------------------ json.loads
\* Token p of text t, or "" past its end.
Tok(t, p) == IF p >= 1 /\ p <= Len(t) THEN t[p] ELSE ""

IsWs(c) == c \in {" ", "\t", "\r", "\n"}
IsDigit(c) == c \in {"0", "1", "2", "3", "4", "5", "6", "7", "8", "9"}

RECURSIVE SkipWs(_, _)
SkipWs(t, p) == IF IsWs(Tok(t, p)) THEN SkipWs(t, p + 1) ELSE p

RECURSIVE SkipDigits(_, _)
SkipDigits(t, p) == IF IsDigit(Tok(t, p)) THEN SkipDigits(t, p + 1) ELSE p

\* The parse operators return the position after what they read, 0 on an error.
ParseString(t, p) ==
  IF Tok(t, p) # "\"" THEN 0
  ELSE IF Tok(t, p + 1) = "\"" THEN p + 2
  ELSE IF p + 2 <= Len(t) /\ Tok(t, p + 2) = "\"" THEN p + 3
  ELSE 0

ParseNumber(t, p) ==
  LET s == IF Tok(t, p) = "-" THEN p + 1 ELSE p
      e == SkipDigits(t, s)
  IN IF e = s THEN 0
     ELSE IF Tok(t, e) = "."
          THEN (IF SkipDigits(t, e + 1) = e + 1 THEN 0 ELSE SkipDigits(t, e + 1))
          ELSE e

RECURSIVE ParseValue(_, _)
RECURSIVE ParseMembers(_, _)
RECURSIVE ParseElements(_, _)

\* After "{" or ",": "key" : value, then "," and more members, or "}".
ParseMembers(t, p) ==
  LET k == ParseString(t, SkipWs(t, p))
      c == SkipWs(t, k)
      v == IF k = 0 \/ Tok(t, c) # ":" THEN 0 ELSE ParseValue(t, SkipWs(t, c + 1))
      e == SkipWs(t, v)
  IN IF v = 0 THEN 0
     ELSE IF Tok(t, e) = "}" THEN e + 1
     ELSE IF Tok(t, e) = "," THEN ParseMembers(t, e + 1)
     ELSE 0

\* After "[" or ",": value, then "," and more elements, or "]".
ParseElements(t, p) ==
  LET v == ParseValue(t, SkipWs(t, p))
      e == SkipWs(t, v)
  IN IF v = 0 THEN 0
     ELSE IF Tok(t, e) = "]" THEN e + 1
     ELSE IF Tok(t, e) = "," THEN ParseElements(t, e + 1)
     ELSE 0

ParseValue(t, p) ==
  LET c == Tok(t, p)
  IN CASE c = "{" -> (IF Tok(t, SkipWs(t, p + 1)) = "}" THEN SkipWs(t, p + 1) + 1
                      ELSE ParseMembers(t, p + 1))
       [] c = "[" -> (IF Tok(t, SkipWs(t, p + 1)) = "]" THEN SkipWs(t, p + 1) + 1
                      ELSE ParseElements(t, p + 1))
       [] c = "\"" -> ParseString(t, p)
       [] c \in {"null", "true", "false"} -> p + 1
       [] c = "-" \/ IsDigit(c) -> ParseNumber(t, p)
       [] OTHER -> 0

\* json.loads(t) returns (TRUE) or raises JSONDecodeError (FALSE): one value,
\* whitespace around it, nothing after it.
json_loads_ok(t) ==
  LET v == ParseValue(t, SkipWs(t, 1))
  IN v # 0 /\ SkipWs(t, v) = Len(t) + 1


\* ------------------------------------------------------------ file system
\* A directory is a function from the names of its files to their text.  A
\* name is a token sequence <<prefix, "_", d, d, d, ".jsonl">>.
EmptyDir == << >>

\* f"{n:03d}": the decimal digits, zero-padded to at least three.
Fmt03d(n) ==
  LET d == Digits(n)
  IN IF Len(d) >= 3 THEN d
     ELSE IF Len(d) = 2 THEN <<"0">> \o d
     ELSE <<"0", "0">> \o d

\* f"{self.prefix}_{self.current_chunk:03d}.jsonl"
ChunkFilename(prefix, chunk) == <<prefix, "_">> \o Fmt03d(chunk) \o <<".jsonl">>

\* open(path, "w"): creates the file, or truncates the one that exists.
OpenForWrite(dir, path) ==
  [p \in (DOMAIN dir) \cup {path} |-> IF p = path THEN <<>> ELSE dir[p]]

\* Mutant of AppendText: the text goes to the start of the file.
AppendText_prepend(dir, path, text) == [dir EXCEPT ![path] = text \o @]

\* handle.write(text); handle.flush(): the text goes to the end of the file.
AppendText(dir, path, text) == [dir EXCEPT ![path] = @ \o text]

\* output_dir.glob(f"{prefix}_*.jsonl")
Glob(dir, prefix) ==
  {p \in DOMAIN dir : Len(p) >= 3 /\ p[1] = prefix /\ p[2] = "_" /\ p[Len(p)] = ".jsonl"}

RECURSIVE SplitLines(_)
\* The lines a text file iterates over, each without its line end.
SplitLines(text) ==
  IF text = <<>> THEN <<>>
  ELSE IF \E k \in 1..Len(text) : text[k] = "\n"
       THEN LET k == CHOOSE n \in 1..Len(text) :
                       text[n] = "\n" /\ \A m \in 1..(n - 1) : text[m] # "\n"
            IN <<SubSeq(text, 1, k - 1)>> \o SplitLines(SubSeq(text, k + 1, Len(text)))
       ELSE <<text>>

RECURSIVE Strip(_)
\* str.strip(): without leading and trailing whitespace.
Strip(line) ==
  IF line = <<>> THEN line
  ELSE IF IsWs(line[1]) THEN Strip(Tail(line))
  ELSE IF IsWs(line[Len(line)]) THEN Strip(SubSeq(line, 1, Len(line) - 1))
  ELSE line

\* ------------------------------------------------- validate_jsonl_record
\* json.dumps then json.loads inside try/except: False when either raises.
validate_jsonl_record(record) ==
  Serializable(record) /\ json_loads_ok(json_dumps(record))

\* ------------------------------------------------- IncrementalJSONLSaver
\* A handle is <<>> (None) or <<path>> (a file open for writing at path).
NoHandle == << >>

start_new_file(sv, dir) ==
  LET filename == ChunkFilename(sv.prefix, sv.current_chunk)
  IN [saver |-> [sv EXCEPT !.current_file_path = <<filename>>,
                           !.current_file_handle = <<filename>>,
                           !.current_file_records = 0],
      fs |-> OpenForWrite(dir, filename)]

\* __init__: the fields, then the first file.
saver_init(dir, prefix, size) ==
  start_new_file([prefix |-> prefix,
                  chunk_size |-> size,
                  current_chunk |-> 1,
                  current_file_records |-> 0,
                  total_records_saved |-> 0,
                  current_file_path |-> NoHandle,
                  current_file_handle |-> NoHandle], dir)

\* The rollover of save_record: a new file, then the chunk number.
rollover(sv, dir) ==
  LET started == start_new_file(sv, dir)
  IN [saver |-> [started.saver EXCEPT !.current_chunk = @ + 1], fs |-> started.fs]

\* Mutant of save_record: the rollover test comes before the validation.
save_record_rollover_first(sv, dir, record) ==
  LET r == IF sv.current_file_records >= sv.chunk_size
           THEN rollover(sv, dir)
           ELSE [saver |-> sv, fs |-> dir]
  IN IF ~validate_jsonl_record(record) \/ r.saver.current_file_handle = NoHandle
     THEN [saver |-> r.saver, fs |-> r.fs, ret |-> FALSE]
     ELSE [saver |-> [r.saver EXCEPT !.current_file_records = @ + 1,
                                     !.total_records_saved = @ + 1],
           fs |-> AppendText(r.fs, r.saver.current_file_handle[1],
                             json_dumps(record) \o <<"\n">>),
           ret |-> TRUE]

\* save_record: [saver, fs, ret].  Every exception inside is caught and
\* answered with False; what was assigned before it stays assigned.
save_record(sv, dir, record) ==
  IF ~validate_jsonl_record(record)
  THEN [saver |-> sv, fs |-> dir, ret |-> FALSE]
  ELSE LET r == IF sv.current_file_records >= sv.chunk_size
                THEN rollover(sv, dir)
                ELSE [saver |-> sv, fs |-> dir]
       IN IF r.saver.current_file_handle = NoHandle
          THEN \* None has no write(): AttributeError
               [saver |-> r.saver, fs |-> r.fs, ret |-> FALSE]
          ELSE [saver |-> [r.saver EXCEPT !.current_file_records = @ + 1,
                                          !.total_records_saved = @ + 1],
                fs |-> AppendText(r.fs, r.saver.current_file_handle[1],
                                  json_dumps(record) \o <<"\n">>),
                ret |-> TRUE]

\* Mutant of saver_close: closing also moves on to the next chunk number.
saver_close_next_chunk(sv) ==
  [sv EXCEPT !.current_file_handle = NoHandle, !.current_chunk = @ + 1]

\* close(): the handle, when there is one, is closed and set to None; the
\* totals are logged.
saver_close(sv) == [sv EXCEPT !.current_file_handle = NoHandle]

\* ------------------------------------------------- verify_jsonl_integrity
RECURSIVE verify_lines_counts_blank(_, _)
\* Mutant of verify_lines: blank lines are counted too.
verify_lines_counts_blank(lines, chunk_lines) ==
  IF lines = <<>> THEN chunk_lines
  ELSE LET line == Strip(lines[1])
       IN IF line = <<>> THEN verify_lines_counts_blank(Tail(lines), chunk_lines + 1)
          ELSE IF ~json_loads_ok(line) THEN -1
          ELSE IF ~(line[1] = "{" /\ line[Len(line)] = "}") THEN -1
          ELSE verify_lines_counts_blank(Tail(lines), chunk_lines + 1)

RECURSIVE verify_lines(_, _)
\* The loop over the lines of one file: the count of non-blank lines, or -1
\* when json.loads or the brace test raises.
verify_lines(lines, chunk_lines) ==
  IF lines = <<>> THEN chunk_lines
  ELSE LET line == Strip(lines[1])
       IN IF line = <<>> THEN verify_lines(Tail(lines), chunk_lines)
          ELSE IF ~json_loads_ok(line) THEN -1
          ELSE IF ~(line[1] = "{" /\ line[Len(line)] = "}") THEN -1
          ELSE verify_lines(Tail(lines), chunk_lines + 1)

RECURSIVE verify_files(_, _, _)
\* The loop over the chunk files: the total, or -1 when a file raised.
verify_files(dir, todo, total_lines) ==
  IF todo = {} THEN total_lines
  ELSE LET chunk_file == CHOOSE p \in todo : TRUE
           chunk_lines == verify_lines(SplitLines(dir[chunk_file]), 0)
       IN IF chunk_lines < 0 THEN -1
          ELSE verify_files(dir, todo \ {chunk_file}, total_lines + chunk_lines)

\* TRUE when the function returns, FALSE when it raises.
verify_jsonl_integrity(dir, prefix, expected_total) ==
  LET total_lines == verify_files(dir, Glob(dir, prefix), 0)
  IN total_lines >= 0 /\ total_lines = expected_total

\* ------------------------------------------------------------------ inputs
Names == <<"Ann", "Bob", "Cy">>
Urls == <<"in/ann", "in/bob", "in/cy">>
Professions == <<"nurse", "pilot">>

\* Row k of the CSV file as read_csv_profiles makes it: four stripped
\* strings.  Rows repeat with period 3: uniqueness is not enforced.
Profile(k) ==
  PyDict(<< <<"name", PyStr(Names[((k - 1) % 3) + 1])>>,
            <<"linkedin_url", PyStr(Urls[((k - 1) % 3) + 1])>>,
            <<"search_keyword", PyStr("kw")>>,
            <<"profession", PyStr(Professions[((k - 1) % 2) + 1])>> >>)

\* d[key] of a dict that has the key.
DictGet(d, key) ==
  d.items[CHOOSE k \in 1..Len(d.items) : d.items[k][1] = key][2]

\* What the scraper answers for one profile: nothing, an empty record, a
\* record, a record holding an object json.dumps cannot encode.
GoodData == PyDict(<< <<"headline", PyStr("Engineer")>> >>)
BadData == PyDict(<< <<"fetched_at", PyObject>> >>)
FetchResults == {PyNone, PyDict(<<>>), GoodData, BadData}

Prefix == "linkedin_profiles"

VARIABLES
  profiles,            \* main: the list read from the CSV file
  chunk_size,          \* the chunk_size the saver is made with
  batch_size,          \* the batch_size the runner is called with
  saver,               \* the IncrementalJSONLSaver's fields
  fs,                  \* the data_source directory
  pc,                  \* where main / scrape_profiles_in_batches stands
  i,                   \* the runner's loop variable (start of the batch)
  j,                   \* index of the next result to process
  scraped_data,        \* what the fetch of the current batch returned
  successful_scrapes,  \* the runner's success counter
  clock,               \* time.time(), in seconds: the start of the run plus
                       \* the time spent in the delays between batches
  returned,            \* the runner's return value (-1 before it returns)
  verified,            \* "none", "passed" or "raised"
  summary,             \* the summary main writes (<<>> before)
  exit_status,         \* -1 while main runs, 0 once it has returned, 1 when
                       \* an exception has left it
  fetch_log,           \* history: every call of linkedin.scrape_profile
  save_log,            \* history: every call of saver.save_record
  writer_calls         \* history: the methods a caller other than main has
                       \* called on the saver it made, in call order

vars == <<profiles, chunk_size, batch_size, saver, fs, pc, i, j, scraped_data,
          successful_scrapes, clock, returned, verified, summary, exit_status,
          fetch_log, save_log, writer_calls>>

\* The saver before IncrementalJSONLSaver(...) has run.
NoSaver ==
  [prefix |-> "", chunk_size |-> 0, current_chunk |-> 0,
   current_file_records |-> 0, total_records_saved |-> 0,
   current_file_path |-> NoHandle, current_file_handle |-> NoHandle]

\* ---------------------------------------------- scrape_profiles_in_batches
total_profiles == Len(profiles)

\* Mutant of Batch: the slice is one item too long.
Batch_one_more(list, start, size) ==
  SubSeq(list, start + 1,
         IF start + size + 1 < Len(list) THEN start + size + 1 ELSE Len(list))

\* profiles[i:i + batch_size]
Batch(list, start, size) ==
  SubSeq(list, start + 1, IF start + size < Len(list) THEN start + size ELSE Len(list))

batch == Batch(profiles, i, batch_size)

batch_urls == [k \in 1..Len(batch) |-> DictGet(batch[k], "linkedin_url")]

batch_number == (i \div batch_size) + 1

\* Mutant of combined_data: every result is paired with the first item.
combined_data_first_item(jj) ==
  PyDict(<< <<"original_profile", batch[1]>>,
            <<"scraped_data", scraped_data[jj + 1]>>,
            <<"scraping_timestamp", PyFloat(clock)>>,
            <<"batch_number", PyInt(batch_number)>>,
            <<"record_index", PyInt(i + jj)>> >>)

\* combined_data for result jj (0-based) of the current batch.
combined_data(jj) ==
  PyDict(<< <<"original_profile", batch[jj + 1]>>,
            <<"scraped_data", scraped_data[jj + 1]>>,
            <<"scraping_timestamp", PyFloat(clock)>>,
            <<"batch_number", PyInt(batch_number)>>,
            <<"record_index", PyInt(i + jj)>> >>)

\* Mutant of after_batch_error: `break` in place of `continue`.
after_batch_error_break == [pc |-> "for_batch", i |-> total_profiles]

\* Where the loop goes after a batch whose fetch raised: `continue`.
after_batch_error == [pc |-> "for_batch", i |-> i + batch_size]

\* for i in range(...): await linkedin.scrape_profile(batch_urls) raises.
FetchRaises ==
  /\ pc = "for_batch"
  /\ i < total_profiles
  /\ fetch_log' = Append(fetch_log, [urls |-> batch_urls, raised |-> TRUE,
                                     results |-> <<>>, at |-> clock])
  /\ pc' = after_batch_error.pc
  /\ i' = after_batch_error.i
  /\ UNCHANGED <<writer_calls, exit_status, profiles, chunk_size, batch_size, saver, fs, j, scraped_data,
                 successful_scrapes, clock, returned, verified, summary, save_log>>

\* for i in range(...): await linkedin.scrape_profile(batch_urls) returns
\* one result per url, in the order of the urls.
FetchReturns ==
  /\ pc = "for_batch"
  /\ i < total_profiles
  /\ \E results \in [1..Len(batch) -> FetchResults] :
       /\ scraped_data' = results
       /\ fetch_log' = Append(fetch_log, [urls |-> batch_urls, raised |-> FALSE,
                                          results |-> results, at |-> clock])
  /\ j' = 0
  /\ pc' = "process"
  /\ UNCHANGED <<writer_calls, exit_status, profiles, chunk_size, batch_size, saver, fs, i,
                 successful_scrapes, clock, returned, verified, summary, save_log>>

\* Whether result jj is processed at all: `if profile_data:`.
is_processed(profile_data) == Truthy(profile_data)

\* Mutant of count_success: the answer of save_record is not looked at.
count_success_always(count, ret) == count + 1

\* The counter after a save_record that answered ret.
count_success(count, ret) == IF ret THEN count + 1 ELSE count

\* One turn of `for j, profile_data in enumerate(scraped_data)`.
ProcessResult ==
  /\ pc = "process"
  /\ j < Len(scraped_data)
  /\ IF is_processed(scraped_data[j + 1])
     THEN LET record == combined_data(j)
              saved == save_record(saver, fs, record)
          IN /\ saver' = saved.saver
             /\ fs' = saved.fs
             /\ save_log' = Append(save_log, [record |-> record, ret |-> saved.ret,
                                               io |-> "none"])
             /\ successful_scrapes' = count_success(successful_scrapes, saved.ret)
     ELSE UNCHANGED <<saver, fs, save_log, successful_scrapes>>
  /\ j' = j + 1
  /\ UNCHANGED <<writer_calls, exit_status, profiles, chunk_size, batch_size, pc, i, scraped_data, clock,
                 returned, verified, summary, fetch_log>>

\* After the last result: the delay when more batches remain.
BatchDone ==
  /\ pc = "process"
  /\ j = Len(scraped_data)
  /\ IF i + batch_size < total_profiles
     THEN pc' = "sleep" /\ i' = i
     ELSE pc' = "for_batch" /\ i' = i + batch_size
  /\ UNCHANGED <<writer_calls, exit_status, profiles, chunk_size, batch_size, saver, fs, j, scraped_data,
                 successful_scrapes, clock, returned, verified, summary,
                 fetch_log, save_log>>

\* The seconds of the delay between batches.
InterBatchDelay == 2

\* await asyncio.sleep(2), then the next turn of the loop.
Sleep ==
  /\ pc = "sleep"
  /\ clock' = clock + InterBatchDelay
  /\ i' = i + batch_size
  /\ pc' = "for_batch"
  /\ UNCHANGED <<writer_calls, exit_status, profiles, chunk_size, batch_size, saver, fs, j, scraped_data,
                 successful_scrapes, returned, verified, summary, fetch_log,
                 save_log>>

\* The loop is over: return successful_scrapes.
Return ==
  /\ pc = "for_batch"
  /\ i >= total_profiles
  /\ returned' = successful_scrapes
  /\ pc' = "close"
  /\ UNCHANGED <<writer_calls, exit_status, profiles, chunk_size, batch_size, saver, fs, i, j, scraped_data,
                 successful_scrapes, clock, verified, summary, fetch_log, save_log>>

\* ------------------------------------------------------------------- main
\* profiles = read_csv_profiles(...); nothing to do on an empty list, else
\* the saver is made.
MainOpen ==
  /\ pc = "main"
  /\ IF profiles = <<>>
     THEN pc' = "done" /\ exit_status' = 0 /\ UNCHANGED <<saver, fs>>
     ELSE LET made == saver_init(fs, Prefix, chunk_size)
          IN /\ saver' = made.saver /\ fs' = made.fs /\ pc' = "for_batch"
             /\ UNCHANGED exit_status
  /\ UNCHANGED <<writer_calls, profiles, chunk_size, batch_size, i, j, scraped_data,
                 successful_scrapes, clock, returned, verified, summary,
                 fetch_log, save_log>>

\* saver.close() after the runner returned.
MainClose ==
  /\ pc = "close"
  /\ saver' = saver_close(saver)
  /\ pc' = IF returned > 0 THEN "verify" ELSE "done"
  /\ exit_status' = IF returned > 0 THEN exit_status ELSE 0
  /\ UNCHANGED <<writer_calls, profiles, chunk_size, batch_size, fs, i, j, scraped_data,
                 successful_scrapes, clock, returned, verified, summary,
                 fetch_log, save_log>>

\* Mutant of MainVerify: the summary is made whatever the verification says.
MainVerify_then_summary ==
  /\ pc = "verify"
  /\ verified' = IF verify_jsonl_integrity(fs, Prefix, returned)
                 THEN "passed" ELSE "raised"
  /\ pc' = "summary"
  /\ UNCHANGED <<writer_calls, exit_status, profiles, chunk_size, batch_size, saver, fs, i, j,
                 scraped_data, successful_scrapes, clock, returned, summary,
                 fetch_log, save_log>>

\* verify_jsonl_integrity(data_output, "linkedin_profiles", successful_scrapes)
MainVerify ==
  /\ pc = "verify"
  /\ IF verify_jsonl_integrity(fs, Prefix, returned)
     THEN verified' = "passed" /\ pc' = "summary"
     ELSE verified' = "raised" /\ pc' = "except"
  /\ UNCHANGED <<writer_calls, exit_status, profiles, chunk_size, batch_size, saver, fs, i, j, scraped_data,
                 successful_scrapes, clock, returned, summary, fetch_log, save_log>>

\* Whether the object on the line has the key: "key": among its tokens.
HasKey(line, key) ==
  \E p \in 2..(Len(line) - 2) :
    line[p] = key /\ line[p - 1] = "\"" /\ line[p + 1] = "\"" /\ line[p + 2] = ":"

\* The loop that counts the professions: on every non-blank line of every
\* chunk file, record["original_profile"]["profession"]; KeyError when a
\* key is missing.
professions_readable(dir) ==
  \A p \in Glob(dir, Prefix) :
    LET lines == SplitLines(dir[p])
    IN \A m \in 1..Len(lines) :
         Strip(lines[m]) # <<>>
           => HasKey(lines[m], "original_profile") /\ HasKey(lines[m], "profession")

\* The summary statistics written to scraping_summary.json; an exception of
\* the profession count goes to `except Exception`.
MainSummary ==
  /\ pc = "summary"
  /\ IF professions_readable(fs)
     THEN /\ summary' = <<[total_profiles_in_csv |-> Len(profiles),
                           successfully_scraped |-> returned,
                           total_files |-> Cardinality(Glob(fs, Prefix)),
                           total_records |-> saver.total_records_saved]>>
          /\ pc' = "done"
          /\ exit_status' = 0
     ELSE /\ pc' = "except"
          /\ UNCHANGED <<summary, exit_status>>
  /\ UNCHANGED <<writer_calls, profiles, chunk_size, batch_size, saver, fs, i, j, scraped_data,
                 successful_scrapes, clock, returned, verified, fetch_log, save_log>>

\* except Exception: log the error, saver.close(), print; main then returns.
MainExcept ==
  /\ pc = "except"
  /\ saver' = saver_close(saver)
  /\ pc' = "done"
  /\ exit_status' = 0
  /\ UNCHANGED <<writer_calls, profiles, chunk_size, batch_size, fs, i, j, scraped_data,
                 successful_scrapes, clock, returned, verified, summary,
                 fetch_log, save_log>>

\* ---------------------------------------------------------- specification
Init ==
  /\ \E n \in 0..MaxProfiles : profiles = [k \in 1..n |-> Profile(k)]
  /\ chunk_size \in 1..MaxChunkSize
  /\ batch_size \in 1..MaxBatchSize
  /\ saver = NoSaver
  /\ fs = EmptyDir
  /\ pc = "main"
  /\ i = 0
  /\ j = 0
  /\ scraped_data = <<>>
  /\ successful_scrapes = 0
  /\ clock = 100
  /\ returned = -1
  /\ verified = "none"
  /\ summary = <<>>
  /\ exit_status = -1
  /\ fetch_log = <<>>
  /\ save_log = <<>>
  /\ writer_calls = <<>>

Next ==
  \/ MainOpen
  \/ FetchRaises
  \/ FetchReturns
  \/ ProcessResult
  \/ BatchDone
  \/ Sleep
  \/ Return
  \/ MainClose
  \/ MainVerify
  \/ MainSummary
  \/ MainExcept

Spec == Init /\ [][Next]_vars

\* ------------------------------------------- the verifier on any directory
\* Lines a chunk file left by anything may hold.
ObjectLine == <<"{", "\"", "a", "\"", ":", " ", "1", "}">>
EmptyObjectLine == <<"{", "}">>
PaddedObjectLine == <<" ", "{", "}", " ">>
BlankLine == << >>
SpaceLine == <<" ">>
ArrayLine == <<"[", "]">>
CutLine == <<"{", "\"", "a", "\"", ":">>
TwoObjectsLine == <<"{", "}", "{", "}">>
\* A line as save_record writes it for a record of the runner.
EnvelopeLine == json_dumps(PyDict(<< <<"original_profile", Profile(1)>> >>))
LineKinds == {ObjectLine, EmptyObjectLine, PaddedObjectLine, BlankLine, SpaceLine,
              ArrayLine, CutLine, TwoObjectsLine, EnvelopeLine}

RECURSIVE TextsUpTo(_)
\* The texts of at most n lines, each ended by a line end.
TextsUpTo(n) ==
  IF n = 0 THEN {<<>>}
  ELSE LET shorter == TextsUpTo(n - 1)
       IN shorter \cup {t \o l \o <<"\n">> : t \in shorter, l \in LineKinds}

OtherFile == ChunkFilename("company", 1)

\* A directory of up to three files; each argument is <<>> (no such file)
\* or <<text>>.
DirOf(first, second, other) ==
  [p \in {ChunkFilename(Prefix, 1) : x \in {1} \cap {Len(first)}}
         \cup {ChunkFilename(Prefix, 2) : x \in {1} \cap {Len(second)}}
         \cup {OtherFile : x \in {1} \cap {Len(other)}}
     |-> IF p = ChunkFilename(Prefix, 1) THEN first[1]
         ELSE IF p = ChunkFilename(Prefix, 2) THEN second[1]
         ELSE other[1]]

\* main at the call of verify_jsonl_integrity, the directory and the
\* expected total being any.
VerifyInit ==
  /\ profiles = <<Profile(1)>>
  /\ chunk_size = 1
  /\ batch_size = 1
  /\ returned \in 0..MaxExpected
  /\ successful_scrapes = returned
  /\ saver = [prefix |-> Prefix, chunk_size |-> 1, current_chunk |-> 1,
              current_file_records |-> 0, total_records_saved |-> returned,
              current_file_path |-> <<ChunkFilename(Prefix, 1)>>,
              current_file_handle |-> NoHandle]
  /\ \E first \in {<<>>} \cup {<<t>> : t \in TextsUpTo(MaxFileLines)},
        second \in {<<>>, <<ObjectLine \o <<"\n">> >>, <<ObjectLine>>,
                    <<BlankLine \o <<"\n">> \o ObjectLine \o <<"\n">> >>,
                    <<ArrayLine \o <<"\n">> >>},
        other \in {<<>>, <<CutLine \o <<"\n">> >>} :
       fs = DirOf(first, second, other)
  /\ pc = "verify"
  /\ i = 1
  /\ j = 0
  /\ scraped_data = <<>>
  /\ clock = 100
  /\ verified = "none"
  /\ summary = <<>>
  /\ exit_status = -1
  /\ fetch_log = <<>>
  /\ save_log = <<>>
  /\ writer_calls = <<>>

VerifyNext ==
  \/ MainVerify
  \/ MainSummary
  \/ MainExcept

VerifySpec == VerifyInit /\ [][VerifyNext]_vars

\* ======================================================= claim vocabulary
CeilDiv(a, b) == (a + b - 1) \div b

\* The runner has returned and main has closed the saver.
AfterClose == returned >= 0 /\ pc \in {"verify", "summary", "except", "done"}

\* save_record was never given a record it rejected.
NoSerializationFailure == \A k \in 1..Len(save_log) : save_log[k].ret

ChunkFiles == Glob(fs, Prefix)

\* The lines of chunk file p.
FileLines(p) == SplitLines(fs[p])

RECURSIVE SumLines(_)
SumLines(files) ==
  IF files = {} THEN 0
  ELSE LET p == CHOOSE q \in files : TRUE
       IN Len(FileLines(p)) + SumLines(files \ {p})

\* The calls of save_record that answered True, in call order.
OkSaves == SelectSeq(save_log, LAMBDA e : e.ret)

IsPrefixOf(a, b) == Len(a) <= Len(b) /\ SubSeq(b, 1, Len(a)) = a

\* ----------------------------------------------------------------- C1
\* C1: with chunk_size N and R >= 1 records written with no serialization
\* failure, after close() there are ceil(R / N) chunk files and their line
\* counts add up to R.  (Stated for R >= 1: for R = 0 the file opened by the
\* constructor exists and is empty.)
C1_ChunkCountAndTotal ==
  (AfterClose /\ NoSerializationFailure /\ Len(save_log) >= 1)
    => /\ Cardinality(ChunkFiles) = CeilDiv(Len(save_log), chunk_size)
       /\ SumLines(ChunkFiles) = Len(save_log)

\* ----------------------------------------------------------------- C2
\* C2: once save_record has answered True for a record, the record's line
\* is in exactly one chunk file, in every later state of the run (a
\* rollover never truncates a file that holds records of the run).
C2_WrittenLinesStay ==
  \A k \in 1..Len(save_log) :
    save_log[k].ret =>
      Cardinality({p \in ChunkFiles :
                     \E m \in 1..Len(FileLines(p)) :
                       FileLines(p)[m] = json_dumps(save_log[k].record)}) = 1

\* ----------------------------------------------------------------- C3
\* The chunk file numbered k, and the highest number in use.
ChunkFile(k) == ChunkFilename(Prefix, k)
HighestChunk ==
  CHOOSE k \in 0..(MaxProfiles + 1) :
    /\ k > 0 => ChunkFile(k) \in ChunkFiles
    /\ \A m \in (k + 1)..(MaxProfiles + 1) : ChunkFile(m) \notin ChunkFiles

\* Every chunk file but the highest-numbered holds chunk_size lines, the
\* highest-numbered one 1..chunk_size lines.
ChunkShape ==
  \A k \in 1..HighestChunk :
    /\ ChunkFile(k) \in ChunkFiles
    /\ IF k < HighestChunk
       THEN Len(FileLines(ChunkFile(k))) = chunk_size
       ELSE Len(FileLines(ChunkFile(k))) \in 1..chunk_size

\* C3: after successful writes and close(), the chunk files have the shape
\* above; as in the scenario "25 records, chunk_size 10 -> 10, 10, 5 lines",
\* here 5 records with chunk_size 2 give files of 2, 2 and 1 lines.
C3_ChunkShapeAtClose ==
  (AfterClose /\ NoSerializationFailure /\ Len(save_log) >= 1)
    => /\ ChunkShape
       /\ (Len(save_log) = 5 /\ chunk_size = 2)
            => /\ HighestChunk = 3
               /\ Len(FileLines(ChunkFile(1))) = 2
               /\ Len(FileLines(ChunkFile(2))) = 2
               /\ Len(FileLines(ChunkFile(3))) = 1

\* ----------------------------------------------------------------- C4
\* C4: in every chunk file the lines are, in order and without gaps or
\* repeats, the lines of consecutive successful save_record calls.
C4_LinesInCallOrder ==
  \A p \in ChunkFiles :
    \E first \in 0..Len(OkSaves) :
      /\ first + Len(FileLines(p)) <= Len(OkSaves)
      /\ \A m \in 1..Len(FileLines(p)) :
           FileLines(p)[m] = json_dumps(OkSaves[first + m].record)

\* A closed run that wrote into two chunk files, two lines into one of them.
C4_Witness ==
  /\ AfterClose
  /\ Cardinality(ChunkFiles) >= 2
  /\ \E p \in ChunkFiles : Len(FileLines(p)) >= 2

\* ----------------------------------------------------------------- C5
\* The step about to be taken is save_record on a record that fails
\* validate_jsonl_record.
InvalidWriteNext ==
  /\ pc = "process"
  /\ j < Len(scraped_data)
  /\ is_processed(scraped_data[j + 1])
  /\ ~validate_jsonl_record(combined_data(j))

\* C5: save_record of a record that does not serialize answers False, writes
\* nothing and leaves the saver (chunk number, counters, handle) as it was,
\* also when the current chunk is full.
C5_InvalidWriteChangesNothing ==
  [][(InvalidWriteNext /\ j' # j)
       => /\ saver' = saver
          /\ fs' = fs
          /\ Len(save_log') = Len(save_log) + 1
          /\ ~save_log'[Len(save_log')].ret
          /\ successful_scrapes' = successful_scrapes]_vars

\* An invalid record has just been refused while the current chunk is full.
C5_Witness ==
  /\ pc = "process"
  /\ j > 0
  /\ is_processed(scraped_data[j])
  /\ save_log # <<>>
  /\ ~save_log[Len(save_log)].ret
  /\ saver.current_file_records >= saver.chunk_size

\* ----------------------------------------------------------------- C6
\* The urls of the k-th consecutive slice of the input.
ExpectedUrls(k) ==
  LET lo == (k - 1) * batch_size
      hi == IF k * batch_size < Len(profiles) THEN k * batch_size ELSE Len(profiles)
  IN [m \in 1..(hi - lo) |-> DictGet(profiles[lo + m], "linkedin_url")]

\* C6: the fetch function is called on the consecutive slices of the input,
\* in input order, each of at most batch_size urls, and by the time the
\* runner returns exactly ceil(L / B) times, whatever calls raised.
C6_FetchCallsAreTheSlices ==
  /\ \A k \in 1..Len(fetch_log) :
       /\ fetch_log[k].urls = ExpectedUrls(k)
       /\ Len(fetch_log[k].urls) \in 1..batch_size
  /\ returned >= 0 => Len(fetch_log) = CeilDiv(Len(profiles), batch_size)

\* A finished run of three or more fetches, the first raised, the second
\* did not, the last slice shorter than batch_size.
C6_Witness ==
  /\ returned >= 0
  /\ Len(fetch_log) >= 3
  /\ fetch_log[1].raised
  /\ ~fetch_log[2].raised
  /\ Len(fetch_log[Len(fetch_log)].urls) < batch_size

\* ----------------------------------------------------------------- C7
\* The batch number and the record index an envelope carries.
SaveBatch(e) == DictGet(e.record, "batch_number").n
SaveIndex(e) == DictGet(e.record, "record_index").n

\* C7: when the runner has returned, a batch whose fetch raised has no
\* save_record call and no share in the returned count, and every later
\* batch was fetched and, when its fetch returned, had each non-empty result
\* handed to save_record.
C7_FailedBatchIsSkipped ==
  returned >= 0 =>
    /\ returned = Cardinality({n \in 1..Len(save_log) :
                                 /\ save_log[n].ret
                                 /\ SaveBatch(save_log[n]) \in 1..Len(fetch_log)
                                 /\ ~fetch_log[SaveBatch(save_log[n])].raised})
    /\ \A k \in 1..Len(fetch_log) :
         fetch_log[k].raised =>
           /\ \A n \in 1..Len(save_log) : SaveBatch(save_log[n]) # k
           /\ \A k2 \in (k + 1)..CeilDiv(Len(profiles), batch_size) :
                /\ k2 <= Len(fetch_log)
                /\ ~fetch_log[k2].raised =>
                     \A m \in 1..Len(fetch_log[k2].results) :
                       Truthy(fetch_log[k2].results[m]) =>
                         \E n \in 1..Len(save_log) :
                           /\ SaveBatch(save_log[n]) = k2
                           /\ SaveIndex(save_log[n]) = (k2 - 1) * batch_size + m - 1

\* A finished run whose first fetch raised and which saved records of a
\* later batch.
C7_Witness ==
  /\ returned >= 1
  /\ fetch_log[1].raised
  /\ \E n \in 1..Len(save_log) : save_log[n].ret /\ SaveBatch(save_log[n]) = 2

\* ----------------------------------------------------------------- C8
\* How many results of batch k the loop has been through.
ResultsDone(k) ==
  IF k = Len(fetch_log) /\ pc = "process" THEN j ELSE Len(fetch_log[k].results)

\* The 0-based positions, in order, of the non-empty results among the first n.
NonEmptyPositions(results, n) ==
  SelectSeq([m \in 1..n |-> m - 1], LAMBDA jj : Truthy(results[jj + 1]))

\* The save_record calls made for batch k, in call order.
BatchSaves(k) == SelectSeq(save_log, LAMBDA e : SaveBatch(e) = k)

\* C8: for every batch, the records handed to save_record are, in order, one
\* envelope per non-empty result, pairing result jj with item jj of the batch
\* and none for an empty result.
C8_OneEnvelopePerNonEmptyResult ==
  \A k \in 1..Len(fetch_log) :
    LET positions == NonEmptyPositions(fetch_log[k].results, ResultsDone(k))
        saves == BatchSaves(k)
    IN /\ Len(saves) = Len(positions)
       /\ \A m \in 1..Len(positions) :
            LET at == (k - 1) * batch_size + positions[m]
            IN /\ SaveIndex(saves[m]) = at
               /\ DictGet(saves[m].record, "original_profile") = profiles[at + 1]
               /\ DictGet(saves[m].record, "scraped_data")
                    = fetch_log[k].results[positions[m] + 1]

\* The scenario [A, None, C] at batch_size 2: a batch whose first result is
\* empty and whose second is not, in a run that has returned.
C8_Witness ==
  /\ returned >= 0
  /\ \E k \in 1..Len(fetch_log) :
       /\ Len(fetch_log[k].results) = 2
       /\ fetch_log[k].results[1] = PyNone
       /\ fetch_log[k].results[2] = GoodData
       /\ Len(BatchSaves(k)) = 1

\* ----------------------------------------------------------------- C9
\* C9: the success counter is the number of save_record calls that answered
\* True, which is the saver's total_records_saved; the runner returns it.
C9_CounterIsSuccessfulWrites ==
  /\ successful_scrapes = Len(OkSaves)
  /\ successful_scrapes = saver.total_records_saved
  /\ returned >= 0 => returned = Len(OkSaves) /\ returned = saver.total_records_saved

\* A run that returned 2 or more with a refused record among its writes.
C9_Witness ==
  /\ returned >= 2
  /\ Len(save_log) > returned

\* ---------------------------------------------------------------- C10
\* The lines of chunk file p that are not blank, stripped.
NonBlankLines(p) ==
  SelectSeq([m \in 1..Len(FileLines(p)) |-> Strip(FileLines(p)[m])],
            LAMBDA l : l # <<>>)

\* The line is one complete JSON object.
IsJsonObject(l) == json_loads_ok(l) /\ l[1] = "{" /\ l[Len(l)] = "}"

RECURSIVE SumNonBlank(_)
SumNonBlank(files) ==
  IF files = {} THEN 0
  ELSE LET p == CHOOSE q \in files : TRUE
       IN Len(NonBlankLines(p)) + SumNonBlank(files \ {p})

\* C10: verify_jsonl_integrity returns exactly when every non-blank line of
\* every file matching the prefix is one JSON object and the number of such
\* lines over all the files is expected_total; else it raises.
C10_VerifyPassesExactlyWhenIntact ==
  verified # "none" =>
    (verified = "passed"
       <=> /\ \A p \in ChunkFiles :
                \A m \in 1..Len(NonBlankLines(p)) : IsJsonObject(NonBlankLines(p)[m])
           /\ SumNonBlank(ChunkFiles) = returned)

\* The scenario "10 and 3 lines, expected 13" at 2 and 1 lines, expected 3,
\* beside a file of another prefix that would not parse.
C10_Witness ==
  /\ verified = "passed"
  /\ returned = 3
  /\ ChunkFilename(Prefix, 1) \in DOMAIN fs
  /\ ChunkFilename(Prefix, 2) \in DOMAIN fs
  /\ OtherFile \in DOMAIN fs
  /\ Len(NonBlankLines(ChunkFilename(Prefix, 1))) = 2
  /\ Len(NonBlankLines(ChunkFilename(Prefix, 2))) = 1

\* ---------------------------------------------------------------- C11
\* C11: any two consecutive calls of the fetch function are one delay
\* between batches apart, also when the earlier of the two batches failed.
C11_DelayBetweenFetches ==
  \A k \in 2..Len(fetch_log) :
    fetch_log[k].at = fetch_log[k - 1].at + InterBatchDelay

\* ------------------------------------------------- runs with I/O errors
\* Longest list of profiles in the runs with I/O errors.
MaxIoProfiles == 3

\* What a write()/flush() that raises OSError has put into the file: nothing,
\* the first part of the text, or all of it.
WriteRemains(text) == {<<>>, SubSeq(text, 1, Len(text) \div 2), text}

\* _start_new_file when open() raises OSError: the old handle is closed and
\* the path assigned; the handle and the counter of the file keep their
\* values.  (The closed file object left in current_file_handle is written
\* as NoHandle: write() raises on both, close() is harmless on both.)
start_new_file_open_fails(sv, dir) ==
  LET filename == ChunkFilename(sv.prefix, sv.current_chunk)
  IN [saver |-> [sv EXCEPT !.current_file_path = <<filename>>,
                           !.current_file_handle = NoHandle],
      fs |-> dir]

\* Whether save_record(record) gets as far as the operation that fails:
\* "open" is the open() of the rollover, "write" the write()/flush().
io_error_possible(sv, record, fault) ==
  /\ validate_jsonl_record(record)
  /\ fault = "open" => sv.current_file_records >= sv.chunk_size
  /\ fault = "write" => \/ sv.current_file_records >= sv.chunk_size
                        \/ sv.current_file_handle # NoHandle

\* Mutant of save_record_io_error: the record is counted before the write.
save_record_io_error_counted(sv, dir, record, fault, remains) ==
  IF fault = "open"
  THEN LET r == start_new_file_open_fails(sv, dir)
       IN [saver |-> r.saver, fs |-> r.fs, ret |-> FALSE]
  ELSE LET r == IF sv.current_file_records >= sv.chunk_size
                THEN rollover(sv, dir)
                ELSE [saver |-> sv, fs |-> dir]
       IN [saver |-> [r.saver EXCEPT !.current_file_records = @ + 1,
                                     !.total_records_saved = @ + 1],
           fs |-> AppendText(r.fs, r.saver.current_file_handle[1], remains),
           ret |-> FALSE]

\* save_record when the open() of the rollover or the write()/flush() raises
\* OSError: `except Exception` catches it and False is answered; what was
\* assigned before the error stays assigned.
save_record_io_error(sv, dir, record, fault, remains) ==
  IF fault = "open"
  THEN LET r == start_new_file_open_fails(sv, dir)
       IN [saver |-> r.saver, fs |-> r.fs, ret |-> FALSE]
  ELSE LET r == IF sv.current_file_records >= sv.chunk_size
                THEN rollover(sv, dir)
                ELSE [saver |-> sv, fs |-> dir]
       IN [saver |-> r.saver,
           fs |-> AppendText(r.fs, r.saver.current_file_handle[1], remains),
           ret |-> FALSE]

\* One turn of the loop over the results in which save_record meets an I/O
\* error.
ProcessResultIoError ==
  /\ pc = "process"
  /\ j < Len(scraped_data)
  /\ is_processed(scraped_data[j + 1])
  /\ LET record == combined_data(j)
     IN \E fault \in {"open", "write"} :
          /\ io_error_possible(saver, record, fault)
          /\ \E remains \in IF fault = "open" THEN {<<>>}
                            ELSE WriteRemains(json_dumps(record) \o <<"\n">>) :
               LET saved == save_record_io_error(saver, fs, record, fault, remains)
               IN /\ saver' = saved.saver
                  /\ fs' = saved.fs
                  /\ save_log' = Append(save_log, [record |-> record,
                                                    ret |-> saved.ret,
                                                    io |-> fault])
                  /\ successful_scrapes' = count_success(successful_scrapes,
                                                         saved.ret)
  /\ j' = j + 1
  /\ UNCHANGED <<writer_calls, exit_status, profiles, chunk_size, batch_size, pc, i, scraped_data,
                 clock, returned, verified, summary, fetch_log>>

\* The constructor of the saver when the open() of the first file raises:
\* the saver is made before main's try block, so the exception leaves main.
MainOpenIoError ==
  /\ pc = "main"
  /\ profiles # <<>>
  /\ pc' = "done"
  /\ exit_status' = 1
  /\ UNCHANGED <<writer_calls, profiles, chunk_size, batch_size, saver, fs, i, j, scraped_data,
                 successful_scrapes, clock, returned, verified, summary,
                 fetch_log, save_log>>

IoInit == Init /\ Len(profiles) <= MaxIoProfiles

IoNext == Next \/ ProcessResultIoError \/ MainOpenIoError

IoSpec == IoInit /\ [][IoNext]_vars

\* ---------------------------------------------------------------- C12
\* The calls of save_record that met an I/O error.
IoErrors == {k \in 1..Len(save_log) : save_log[k].io # "none"}

\* C12 as stated: an I/O error of the writer is fatal.  After it no further
\* batch is fetched and no further record is written, and the run ends
\* through the error branch: writer closed, no verification, no summary.
C12_IoErrorIsFatal ==
  \A k \in IoErrors :
    /\ Len(fetch_log) = SaveBatch(save_log[k])
    /\ \A m \in (k + 1)..Len(save_log) : ~save_log[m].ret
    /\ pc = "done" => /\ saver.current_file_handle = NoHandle
                      /\ verified = "none"
                      /\ summary = <<>>

\* C12 amended: an I/O error inside save_record is absorbed as a failure of
\* that one record.  save_record answers False and the record is counted
\* neither by the saver nor by the runner; the runner goes on, so that at its
\* return every batch has been fetched.  Only the open() of the first file,
\* in the constructor, ends the run: before anything is fetched.
C12_IoErrorIsAbsorbed ==
  /\ \A k \in IoErrors : ~save_log[k].ret
  /\ saver.total_records_saved = Len(OkSaves)
  /\ successful_scrapes = Len(OkSaves)
  /\ returned >= 0 => /\ Len(fetch_log) = CeilDiv(total_profiles, batch_size)
                      /\ returned = Len(OkSaves)
  /\ exit_status = 1 => saver = NoSaver /\ fetch_log = <<>>

\* An I/O error in the first batch, then a record written in a later batch,
\* and the run ended with main returning.
C12_Witness ==
  /\ pc = "done"
  /\ exit_status = 0
  /\ \E k \in IoErrors :
       /\ Len(fetch_log) > SaveBatch(save_log[k])
       /\ \E m \in (k + 1)..Len(save_log) :
            save_log[m].ret /\ SaveBatch(save_log[m]) > SaveBatch(save_log[k])

\* ---------------------------------------------------------------- C13
\* C13: when the verification after the run finds a mismatch, the run does
\* not end as a completed one: an exception leaves main, the exit status is
\* not 0.  (That the chunk files stay in place is C13_FilesLeftInPlace.)
C13_VerifyFailureIsHardFailure ==
  (pc = "done" /\ verified = "raised")
    => exit_status = 1

\* The part of C13 that holds: no step at or after the verification removes
\* or changes a chunk file.
C13_FilesLeftInPlace == [][(pc \in {"verify", "except"}) => (fs' = fs)]_vars

\* ------------------------------------------------ runs with an interrupt
\* Longest list of profiles in the runs with an interrupt.
MaxInterruptProfiles == 3

\* Ctrl-C while the runner waits for the fetch of a batch or in the delay
\* after one.
Interrupt ==
  /\ \/ pc = "for_batch" /\ i < total_profiles
     \/ pc = "sleep"
  /\ pc' = "interrupted"
  /\ UNCHANGED <<writer_calls, exit_status, profiles, chunk_size, batch_size, saver, fs, i, j,
                 scraped_data, successful_scrapes, clock, returned, verified,
                 summary, fetch_log, save_log>>

\* except KeyboardInterrupt: log the warning, saver.close(), print; main
\* then returns.
MainKeyboardInterrupt ==
  /\ pc = "interrupted"
  /\ saver' = saver_close(saver)
  /\ pc' = "done"
  /\ exit_status' = 0
  /\ UNCHANGED <<writer_calls, profiles, chunk_size, batch_size, fs, i, j, scraped_data,
                 successful_scrapes, clock, returned, verified, summary,
                 fetch_log, save_log>>

\* The interrupt reaches main as the cancellation of its task (the event
\* loop, not main, was running when the signal came): CancelledError is
\* caught by neither except clause of main, so nothing of main runs any
\* more and asyncio.run raises.  The records written are in the files, each
\* write having been flushed.
MainCancelled ==
  /\ pc = "interrupted"
  /\ pc' = "done"
  /\ exit_status' = 1
  /\ UNCHANGED <<writer_calls, profiles, chunk_size, batch_size, saver, fs, i, j, scraped_data,
                 successful_scrapes, clock, returned, verified, summary,
                 fetch_log, save_log>>

InterruptInit == Init /\ Len(profiles) <= MaxInterruptProfiles

InterruptNext == Next \/ Interrupt \/ MainKeyboardInterrupt \/ MainCancelled

InterruptSpec == InterruptInit /\ [][InterruptNext]_vars

\* ---------------------------------------------------------------- C14
\* The run was interrupted: the runner never returned.
Interrupted ==
  \/ pc = "interrupted"
  \/ pc = "done" /\ returned = -1 /\ profiles # <<>>

\* Every line of every chunk file is one complete JSON object.
AllLinesParse ==
  \A p \in ChunkFiles :
    \A m \in 1..Len(FileLines(p)) : IsJsonObject(FileLines(p)[m])

\* The chunk files hold the records of the successful writes, each once, and
\* nothing else.
FilesHoldWrittenRecords ==
  /\ SumLines(ChunkFiles) = Len(OkSaves)
  /\ \A k \in 1..Len(OkSaves) :
       \E p \in ChunkFiles :
         \E m \in 1..Len(FileLines(p)) :
           FileLines(p)[m] = json_dumps(OkSaves[k].record)

\* C14: when the run is interrupted after k batches, the chunk files hold
\* exactly the records written in those k batches, and every line of every
\* chunk file is a complete, parseable JSON object.
C14_InterruptLeavesWrittenRecords ==
  Interrupted => FilesHoldWrittenRecords /\ AllLinesParse

\* The part of C14 that holds: every line parses, and while no rollover has
\* happened the files hold the written records.
C14_InterruptLeavesValidLines ==
  Interrupted => /\ AllLinesParse
                 /\ Len(OkSaves) <= chunk_size => FilesHoldWrittenRecords

MaxWriterCalls == 4

\* The records handed to save_record: two that serialize, one that does not.
WriterRecords == {Profile(1), Profile(2), BadData}

\* saver.save_record(record), called directly.
WriterWrite ==
  /\ pc = "writer"
  /\ Len(writer_calls) < MaxWriterCalls
  /\ \E record \in WriterRecords :
       LET saved == save_record(saver, fs, record)
       IN /\ saver' = saved.saver
          /\ fs' = saved.fs
          /\ save_log' = Append(save_log, [record |-> record, ret |-> saved.ret,
                                            io |-> "none"])
  /\ writer_calls' = Append(writer_calls, "write")
  /\ UNCHANGED <<exit_status, profiles, chunk_size, batch_size, pc, i, j,
                 scraped_data, successful_scrapes, clock, returned, verified,
                 summary, fetch_log>>

\* saver.close(), called directly.
WriterClose ==
  /\ pc = "writer"
  /\ Len(writer_calls) < MaxWriterCalls
  /\ saver' = saver_close(saver)
  /\ writer_calls' = Append(writer_calls, "close")
  /\ UNCHANGED <<exit_status, profiles, chunk_size, batch_size, fs, pc, i, j,
                 scraped_data, successful_scrapes, clock, returned, verified,
                 summary, fetch_log, save_log>>

\* IncrementalJSONLSaver(output_dir, prefix, chunk_size) on an empty
\* directory.
WriterInit ==
  /\ profiles = <<>>
  /\ chunk_size \in 1..MaxChunkSize
  /\ batch_size = 1
  /\ saver = saver_init(EmptyDir, Prefix, chunk_size).saver
  /\ fs = saver_init(EmptyDir, Prefix, chunk_size).fs
  /\ pc = "writer"
  /\ i = 0
  /\ j = 0
  /\ scraped_data = <<>>
  /\ successful_scrapes = 0
  /\ clock = 100
  /\ returned = -1
  /\ verified = "none"
  /\ summary = <<>>
  /\ exit_status = -1
  /\ fetch_log = <<>>
  /\ save_log = <<>>
  /\ writer_calls = <<>>

WriterNext == WriterWrite \/ WriterClose

WriterSpec == WriterInit /\ [][WriterNext]_vars

\* ---------------------------------------------------------------- C16
\* The step is a call of close() right after a call of close().
SecondClose ==
  /\ writer_calls # <<>>
  /\ writer_calls[Len(writer_calls)] = "close"
  /\ writer_calls' = Append(writer_calls, "close")

\* C16: a close() after a close() changes neither the saver (chunk number,
\* counters, handle) nor any file.
C16_CloseIsIdempotent == [][SecondClose => (saver' = saver /\ fs' = fs)]_vars

\* Two calls of close() in a row on a saver whose current chunk is full.
C16_Witness ==
  /\ Len(writer_calls) >= 3
  /\ writer_calls[Len(writer_calls)] = "close"
  /\ writer_calls[Len(writer_calls) - 1] = "close"
  /\ writer_calls[Len(writer_calls) - 2] = "write"
  /\ saver.current_file_records = saver.chunk_size

\* ------------------------------------------------------ utils.save_jsonl
RECURSIVE dump_lines(_)
\* for record in records: f.write(json.dumps(record, ...) + "\n")
dump_lines(records) ==
  IF records = <<>> THEN <<>>
  ELSE json_dumps(records[1]) \o <<"\n">> \o dump_lines(Tail(records))

RECURSIVE save_jsonl_chunks(_, _, _, _, _)
\* for index in range(0, total, chunk_size): the slice of the records from
\* index goes to the file numbered index // chunk_size + 1.
save_jsonl_chunks(records, dir, prefix, size, index) ==
  IF index >= Len(records) THEN dir
  ELSE LET last == IF index + size < Len(records) THEN index + size
                   ELSE Len(records)
           chunk_records == SubSeq(records, index + 1, last)
           chunk_path == ChunkFilename(prefix, (index \div size) + 1)
       IN save_jsonl_chunks(records,
                            AppendText(OpenForWrite(dir, chunk_path), chunk_path,
                                       dump_lines(chunk_records)),
                            prefix, size, index + size)

\* save_jsonl(records, output_dir, prefix, chunk_size): the directory after
\* the call.
save_jsonl(records, dir, prefix, size) ==
  IF Len(records) = 0 THEN dir
  ELSE IF Len(records) > size
       THEN save_jsonl_chunks(records, dir, prefix, size, 0)
       ELSE LET chunk_path == ChunkFilename(prefix, 1)
            IN AppendText(OpenForWrite(dir, chunk_path), chunk_path,
                          dump_lines(records))

\* ---------------------------------------------------------------- C17
\* The records handed to save_record so far, in call order.
WrittenRecords == [k \in 1..Len(save_log) |-> save_log[k].record]

\* The calls so far: one or more writes, of records that serialize, then
\* close().
WrittenThenClosed ==
  /\ Len(writer_calls) >= 2
  /\ \A k \in 1..Len(writer_calls) :
       writer_calls[k] = IF k < Len(writer_calls) THEN "write" ELSE "close"
  /\ \A k \in 1..Len(save_log) : Serializable(save_log[k].record)

\* Both directories have the same files with the same lines.
SameFiles(d1, d2) ==
  /\ DOMAIN d1 = DOMAIN d2
  /\ \A p \in DOMAIN d1 : SplitLines(d1[p]) = SplitLines(d2[p])

\* C17: writing a non-empty list of serializable records one by one through
\* the saver and closing it leaves, in an empty directory, the same chunk
\* files with the same lines as one call of save_jsonl on the whole list
\* with the same prefix and chunk_size.
C17_SaverAgreesWithSaveJsonl ==
  WrittenThenClosed
    => SameFiles(fs, save_jsonl(WrittenRecords, EmptyDir, Prefix, chunk_size))

\* The part of C17 that holds: the two agree while the list is no longer
\* than chunk_size, that is, while the saver makes no rollover.
C17_AgreeWithoutRollover ==
  (WrittenThenClosed /\ Len(WrittenRecords) <= chunk_size)
    => SameFiles(fs, save_jsonl(WrittenRecords, EmptyDir, Prefix, chunk_size))

\* ------------------------------ runs into the directory of an earlier run
\* Longest list of profiles in the runs into a directory that is not empty.
MaxRerunProfiles == 2
\* Most chunk files the earlier run has left.
MaxLeftoverFiles == 2

RECURSIVE LeftoverText(_)
\* A chunk file of n lines as the earlier run wrote them.
LeftoverText(n) ==
  IF n = 0 THEN <<>> ELSE EnvelopeLine \o <<"\n">> \o LeftoverText(n - 1)

\* The directories an earlier run has left: chunk files 001..m of the same
\* prefix, of 1..MaxFileLines lines each.
LeftoverDirs ==
  {[p \in {ChunkFilename(Prefix, k) : k \in 1..m} |-> LeftoverText(n)] :
     m \in 0..MaxLeftoverFiles, n \in 1..MaxFileLines}

\* main started on the output directory of an earlier run.
RerunInit ==
  /\ \E n \in 0..MaxRerunProfiles : profiles = [k \in 1..n |-> Profile(k)]
  /\ chunk_size \in 1..MaxChunkSize
  /\ batch_size \in 1..MaxBatchSize
  /\ saver = NoSaver
  /\ fs \in LeftoverDirs
  /\ pc = "main"
  /\ i = 0
  /\ j = 0
  /\ scraped_data = <<>>
  /\ successful_scrapes = 0
  /\ clock = 100
  /\ returned = -1
  /\ verified = "none"
  /\ summary = <<>>
  /\ exit_status = -1
  /\ fetch_log = <<>>
  /\ save_log = <<>>
  /\ writer_calls = <<>>

RerunSpec == RerunInit /\ [][Next]_vars

\* ---------------------------------------------------------------- C18
\* C18: after a run that wrote R <= chunk_size records with no failed write
\* and closed the saver, verify_jsonl_integrity with expected_total = R
\* passes, whatever chunk files of the same prefix an earlier run left in
\* the directory.
C18_RerunVerifies ==
  (verified # "none" /\ NoSerializationFailure /\ returned <= chunk_size)
    => verified = "passed"

\* The part of C18 that holds: the verification passes when the highest
\* chunk file left by the earlier run is one the new run has written again.
C18_RerunVerifiesOverwrittenFiles ==
  (verified # "none" /\ NoSerializationFailure /\ returned <= chunk_size
     /\ ChunkFiles = {ChunkFilename(Prefix, 1)})
    => verified = "passed"

\* ---------------------------------------------------------------- C19
\* close() has been called on the saver.
WasClosed == \E k \in 1..Len(writer_calls) : writer_calls[k] = "close"

\* The step is a call of save_record on a saver that has been closed.
WriteAfterClose == WasClosed /\ writer_calls' = Append(writer_calls, "write")

\* C19: every save_record after a close() answers False and changes neither
\* a chunk file nor the saver (counters, chunk number, handle): a closed
\* saver opens, truncates or appends to no file.
C19_ClosedWriterRefuses ==
  [][WriteAfterClose => /\ ~save_log'[Len(save_log')].ret
                        /\ fs' = fs
                        /\ saver' = saver]_vars

\* The part of C19 that holds: a write to a saver that is closed (no handle)
\* and whose current chunk is not full is refused and changes nothing.
C19_ClosedWriterRefusesUnlessFull ==
  [][(WriteAfterClose /\ saver.current_file_handle = NoHandle
        /\ saver.current_file_records < saver.chunk_size)
       => /\ ~save_log'[Len(save_log')].ret
          /\ fs' = fs
          /\ saver' = saver]_vars
====
